---- MODULE Spec2Model ----
\* Token stream player of src/app/page.tsx (MarkdownStreamingDemo): the React
\* state of the component, its four effects, its event handlers and the
\* auto-play timer.
\*
\* A step of the model is either one event handler together with the render
\* it causes (a user event or the timer callback), or one flush of the
\* passive effects of the last render together with the render their state
\* updates cause.  Renders caused by user input are synchronous and their
\* effects are flushed before the browser handles another task, so no user
\* event and no timer callback is taken while effects are pending.
EXTENDS Integers, Sequences, FiniteSets, TLC

\* ---------------------------------------------------------------- bounds

\* Longest text typed into the textarea.
MaxTextLen == 2

\* Longest text carried by the share link the page is opened with.
MaxShareLen == 1

\* ---------------------------------------------------------------- texts

\* Characters of a text.  "s" stands for the literal of a special token
\* (such as <|endoftext|>), on which encoder.encode throws.
Letters == {"a", "b"}
Special == "s"

RECURSIVE SeqsUpTo(_, _)
SeqsUpTo(S, n) ==
    IF n = 0 THEN {<<>>}
    ELSE LET shorter == SeqsUpTo(S, n - 1)
         IN  shorter \cup {Append(t, c) : t \in {u \in shorter : Len(u) = n - 1}, c \in S}

\* The texts typed into the textarea, and the texts of share links.
Texts == SeqsUpTo(Letters, MaxTextLen) \cup {<<Special>>}
ShareTexts == SeqsUpTo(Letters, MaxShareLen) \cup {<<Special>>}

defaultMarkdown == <<"b", "a", "a">>

Min(x, y) == IF x < y THEN x ELSE y
Max(x, y) == IF x > y THEN x ELSE y

\* ------------------------------------------------------------ tokenizer

\* The vocabulary: token 1 is "a", token 2 is "b", token 3 is the merge "ab".
TokenText(id) ==
    CASE id = 1 -> <<"a">>
      [] id = 2 -> <<"b">>
      [] id = 3 -> <<"a", "b">>

\* encoder.encode throws on a text that holds a special token.
EncodeThrows(t) == \E i \in 1..Len(t) : t[i] = Special

\* encoder.encode on a text without special tokens: greedy longest match.
RECURSIVE Encode(_)
Encode(t) ==
    IF t = <<>> THEN <<>>
    ELSE IF Len(t) >= 2 /\ t[1] = "a" /\ t[2] = "b"
         THEN <<3>> \o Encode(SubSeq(t, 3, Len(t)))
         ELSE <<(IF t[1] = "a" THEN 1 ELSE 2)>> \o Encode(Tail(t))

\* encoder.decode: the concatenation of the tokens' texts.
RECURSIVE Decode(_)
Decode(toks) ==
    IF toks = <<>> THEN <<>> ELSE TokenText(Head(toks)) \o Decode(Tail(toks))

\* ---------------------------------------------------------- share codec

\* Symbols of a share token: one symbol per character, closed by EndOfStream.
\* BadSymbol is a symbol no dictionary entry matches (the decompressor returns
\* null); RaiseSymbol makes the decompressor throw.
EndOfStream == 0
BadSymbol == 8
RaiseSymbol == 9

CharCode(c) == CASE c = "a" -> 1 [] c = "b" -> 2 [] c = "s" -> 3
CodeChar(k) == CASE k = 1 -> "a" [] k = 2 -> "b" [] k = 3 -> "s"

compressToEncodedURIComponent(t) ==
    [i \in 1..(Len(t) + 1) |-> IF i <= Len(t) THEN CharCode(t[i]) ELSE EndOfStream]

\* The result of decompressing: kind "text" with the text, kind "null", or
\* kind "throw".  A stream that ends before EndOfStream yields the empty text.
RECURSIVE Decompress(_, _)
Decompress(c, acc) ==
    IF c = <<>> THEN [kind |-> "text", text |-> <<>>]
    ELSE IF Head(c) = EndOfStream THEN [kind |-> "text", text |-> acc]
    ELSE IF Head(c) = RaiseSymbol THEN [kind |-> "throw", text |-> <<>>]
    ELSE IF Head(c) = BadSymbol THEN [kind |-> "null", text |-> <<>>]
    ELSE Decompress(Tail(c), Append(acc, CodeChar(Head(c))))

decompressFromEncodedURIComponent(c) == Decompress(c, <<>>)

\* The "md" query parameter: absent, or a token.
NoParam == [has |-> FALSE, tok |-> <<>>]
Param(c) == [has |-> TRUE, tok |-> c]

\* Tokens that do not come from compressing a text: a truncated stream, a
\* stream with an unknown symbol, a stream on which decompression throws.
CorruptTokens == {<<1>>, <<BadSymbol>>, <<RaiseSymbol>>}

UrlParams ==
    {NoParam, Param(<<>>)}
        \cup {Param(compressToEncodedURIComponent(t)) : t \in ShareTexts}
        \cup {Param(c) : c \in CorruptTokens}

\* ------------------------------------------------------------ the state

Speeds == {50, 100, 200}
DefaultSpeed == 100

VARIABLES
    markdown,           \* useState(defaultMarkdown)
    tokens,             \* useState<number[]>([])
    currentTokenIndex,  \* useState(0)
    isPlaying,          \* useState(false)
    playbackSpeed,      \* useState(100)
    urlMd,              \* the "md" parameter of window.location.search
    mounted,            \* the effects of the first render have run
    tokDep,             \* markdown of the render the tokenize effect last ran in
    playDep,            \* dependencies the auto-play effect last ran with
    keyLen,             \* tokens.length captured by the installed keydown listener
    timers,             \* the pending timeouts: handle, captured tokens, delay
    cleanup,            \* handle the cleanup of the auto-play effect clears, 0 if none
    lastEvent           \* the last event a handler was called for

vars == <<markdown, tokens, currentTokenIndex, isPlaying, playbackSpeed, urlMd,
          mounted, tokDep, playDep, keyLen, timers, cleanup, lastEvent>>

NoTimer == [set |-> FALSE, tokens |-> <<>>, delay |-> 0]

\* The pending tick of the auto-play effect: what it captured, or NoTimer.
timer ==
    IF timers = {} THEN NoTimer
    ELSE LET t == CHOOSE x \in timers : TRUE
         IN  [set |-> TRUE, tokens |-> t.tokens, delay |-> t.delay]

\* setTimeout: the handle it returns, one that no pending timeout has.
NewHandle(ts) ==
    CHOOSE i \in 1..(Cardinality(ts) + 1) :
        /\ \A t \in ts : t.id # i
        /\ \A j \in 1..(i - 1) : \E t \in ts : t.id = j

\* A cleanup that clears nothing.
clearNothing(ts, handle) == ts

\* clearTimeout(handle)
clearTimeout(ts, handle) == {t \in ts : t.id # handle}

\* The dependencies of the auto-play effect without isPlaying.
PlayDepsWithoutPlaying == <<currentTokenIndex, Len(tokens), playbackSpeed>>

\* The dependencies of the auto-play effect without playbackSpeed.
PlayDepsWithoutSpeed == <<isPlaying, currentTokenIndex, Len(tokens)>>

\* [isPlaying, currentTokenIndex, tokens.length, playbackSpeed]
PlayDeps == <<isPlaying, currentTokenIndex, Len(tokens), playbackSpeed>>

\* An event: the handler called, the key and the target of a key press, and
\* the "md" parameter of the URL the handler wrote to the clipboard, if any.
Event(op) == [op |-> op, key |-> "", target |-> "", copied |-> NoParam]
KeyEvent(key, target) ==
    [op |-> "keydown", key |-> key, target |-> target, copied |-> NoParam]
ShareEvent(param) == [op |-> "share", key |-> "", target |-> "", copied |-> param]

Init ==
    /\ markdown = defaultMarkdown
    /\ tokens = <<>>
    /\ currentTokenIndex = 0
    /\ isPlaying = FALSE
    /\ playbackSpeed = DefaultSpeed
    /\ urlMd \in UrlParams
    /\ mounted = FALSE
    /\ tokDep = defaultMarkdown
    /\ playDep = <<FALSE, 0, 0, DefaultSpeed>>
    /\ keyLen = 0
    /\ timers = {}
    /\ cleanup = 0
    /\ lastEvent = Event("mount")

\* ---------------------------------------------------------- the effects

\* Which effects the last render left to run.
RunTokenize == ~mounted \/ markdown # tokDep
RunAutoPlay == ~mounted \/ PlayDeps # playDep
RunKeyboard == ~mounted \/ Len(tokens) # keyLen
EffectsPending == RunTokenize \/ RunAutoPlay \/ RunKeyboard
Settled == ~EffectsPending

\* LoadFromUrl without the test of the decompressed text: whatever the
\* decompressor yields replaces the markdown.
LoadFromUrlUnchecked(md, param) ==
    IF param.has /\ param.tok # <<>>
    THEN decompressFromEncodedURIComponent(param.tok).text
    ELSE md

\* Load markdown from URL on mount: the markdown the effect sets.
LoadFromUrl(md, param) ==
    IF param.has /\ param.tok # <<>>
    THEN LET d == decompressFromEncodedURIComponent(param.tok)
         IN  IF d.kind = "text" /\ d.text # <<>> THEN d.text ELSE md
    ELSE md

\* Tokenize markdown when it changes: the tokens and the cursor the effect sets.
TokenizeTokens(md, toks) ==
    IF md # <<>>
    THEN IF EncodeThrows(md) THEN <<>> ELSE Encode(md)
    ELSE toks

TokenizeIndex(md, idx) ==
    IF md # <<>> /\ ~EncodeThrows(md) THEN 0 ELSE idx

\* AutoPlayTimer with the bound off by one: a tick is scheduled at the end too.
AutoPlayTimerAtEnd(playing, idx, toks, speed) ==
    IF playing /\ idx <= Len(toks)
    THEN [set |-> TRUE, tokens |-> toks, delay |-> speed]
    ELSE [set |-> FALSE, tokens |-> <<>>, delay |-> 0]

\* Auto-play: the timeout the effect asks for, or NoTimer.
AutoPlayTimer(playing, idx, toks, speed) ==
    IF playing /\ idx < Len(toks)
    THEN [set |-> TRUE, tokens |-> toks, delay |-> speed]
    ELSE NoTimer

\* AutoPlayIsPlaying without the branch that stops playback at the end.
AutoPlayNeverStops(playing, idx, toks) == playing

\* Auto-play: the isPlaying the effect sets.
AutoPlayIsPlaying(playing, idx, toks) ==
    IF playing /\ idx >= Len(toks) THEN FALSE ELSE playing

\* One flush of the passive effects of the last render, in the order the
\* component declares them, and the render of the state they set.
FlushEffects ==
    /\ EffectsPending
    /\ markdown' = IF ~mounted THEN LoadFromUrl(markdown, urlMd) ELSE markdown
    /\ tokens' = IF RunTokenize THEN TokenizeTokens(markdown, tokens) ELSE tokens
    /\ currentTokenIndex' =
           IF RunTokenize THEN TokenizeIndex(markdown, currentTokenIndex)
           ELSE currentTokenIndex
    /\ LET cleared == IF RunAutoPlay THEN clearTimeout(timers, cleanup) ELSE timers
           asked == AutoPlayTimer(isPlaying, currentTokenIndex, tokens, playbackSpeed)
           handle == NewHandle(cleared)
       IN  /\ timers' =
                  IF RunAutoPlay /\ asked.set
                  THEN cleared \cup {[id |-> handle, tokens |-> asked.tokens,
                                      delay |-> asked.delay]}
                  ELSE cleared
           /\ cleanup' =
                  IF RunAutoPlay THEN (IF asked.set THEN handle ELSE 0) ELSE cleanup
    /\ isPlaying' =
           IF RunAutoPlay THEN AutoPlayIsPlaying(isPlaying, currentTokenIndex, tokens)
           ELSE isPlaying
    /\ tokDep' = markdown
    /\ playDep' = IF RunAutoPlay THEN PlayDeps ELSE playDep
    /\ keyLen' = Len(tokens)
    /\ mounted' = TRUE
    /\ UNCHANGED <<playbackSpeed, urlMd, lastEvent>>

\* ------------------------------------------------------------ the timer

\* TickIndex advancing by two tokens.
TickIndexSkips(prev, t) == Min(prev + 2, Len(t.tokens))

\* The setTimeout callback: setCurrentTokenIndex(prev => min(prev + 1, tokens.length))
\* with the tokens of the render that scheduled it.
TickIndex(prev, t) == Min(prev + 1, Len(t.tokens))

TimerFire ==
    /\ Settled
    /\ \E t \in timers :
           /\ currentTokenIndex' = TickIndex(currentTokenIndex, t)
           /\ timers' = timers \ {t}
    /\ lastEvent' = Event("tick")
    /\ UNCHANGED <<markdown, tokens, isPlaying, playbackSpeed, urlMd, mounted,
                   tokDep, playDep, keyLen, cleanup>>

\* ------------------------------------------------------ the user events

\* EditText that also stops playback.
EditTextStops(t) ==
    /\ ~EffectsPending
    /\ t # markdown
    /\ lastEvent' = Event("edit")
    /\ markdown' = t
    /\ isPlaying' = FALSE
    /\ UNCHANGED <<tokens, currentTokenIndex, playbackSpeed, urlMd,
                   mounted, tokDep, playDep, keyLen, timers, cleanup>>

\* Textarea onChange: setMarkdown(e.target.value).
EditText(t) ==
    /\ Settled
    /\ t # markdown
    /\ lastEvent' = Event("edit")
    /\ markdown' = t
    /\ UNCHANGED <<tokens, currentTokenIndex, isPlaying, playbackSpeed, urlMd,
                   mounted, tokDep, playDep, keyLen, timers, cleanup>>

KeyTargets == {"textarea", "body"}
Keys == {"ArrowLeft", "ArrowRight", " ", "Enter"}

\* The playback state of a key press, without the test of the event's target.
KeyDownIsPlayingAnywhere(key, target, prev) ==
    CASE key \in {"ArrowLeft", "ArrowRight"} -> FALSE
      [] key = " " -> ~prev
      [] OTHER -> prev

\* handleKeyDown: the cursor and the playback state a key press sets.
KeyDownIndex(key, target, prev) ==
    IF target = "textarea" THEN prev
    ELSE CASE key = "ArrowLeft" -> Max(0, prev - 1)
           [] key = "ArrowRight" -> Min(prev + 1, keyLen)
           [] OTHER -> prev

KeyDownIsPlaying(key, target, prev) ==
    IF target = "textarea" THEN prev
    ELSE CASE key \in {"ArrowLeft", "ArrowRight"} -> FALSE
           [] key = " " -> ~prev
           [] OTHER -> prev

handleKeyDown(key, target) ==
    /\ Settled
    /\ lastEvent' = KeyEvent(key, target)
    /\ currentTokenIndex' = KeyDownIndex(key, target, currentTokenIndex)
    /\ isPlaying' = KeyDownIsPlaying(key, target, isPlaying)
    /\ UNCHANGED <<markdown, tokens, playbackSpeed, urlMd, mounted, tokDep,
                   playDep, keyLen, timers, cleanup>>

\* setIsPlaying(!isPlaying)
TogglePlaybackIsPlaying(playing) == ~playing

togglePlayback ==
    /\ Settled
    /\ lastEvent' = Event("togglePlayback")
    /\ isPlaying' = TogglePlaybackIsPlaying(isPlaying)
    /\ UNCHANGED <<markdown, tokens, currentTokenIndex, playbackSpeed, urlMd,
                   mounted, tokDep, playDep, keyLen, timers, cleanup>>

resetToStart ==
    /\ Settled
    /\ lastEvent' = Event("resetToStart")
    /\ currentTokenIndex' = 0
    /\ isPlaying' = FALSE
    /\ UNCHANGED <<markdown, tokens, playbackSpeed, urlMd, mounted, tokDep,
                   playDep, keyLen, timers, cleanup>>

skipToEnd ==
    /\ Settled
    /\ lastEvent' = Event("skipToEnd")
    /\ currentTokenIndex' = Len(tokens)
    /\ isPlaying' = FALSE
    /\ UNCHANGED <<markdown, tokens, playbackSpeed, urlMd, mounted, tokDep,
                   playDep, keyLen, timers, cleanup>>

\* The token click without its setIsPlaying(false).
TokenClickKeepsPlaying(playing) == playing

\* onClick of the span of the token at `index` (0-based, as in tokens.map).
TokenClickIsPlaying(playing) == FALSE

\* The token click seeking to the clicked index itself.
TokenClickAtIndex(index) == index

\* setCurrentTokenIndex(index + 1)
TokenClickIndex(index) == index + 1

\* const isActive = index < currentTokenIndex
isActive(index, idx) == index < idx

TokenClick(index) ==
    /\ Settled
    /\ lastEvent' = Event("tokenClick")
    /\ currentTokenIndex' = TokenClickIndex(index)
    /\ isPlaying' = TokenClickIsPlaying(isPlaying)
    /\ UNCHANGED <<markdown, tokens, playbackSpeed, urlMd, mounted, tokDep,
                   playDep, keyLen, timers, cleanup>>

\* onChange of the speed select: setPlaybackSpeed(Number(e.target.value)).
SetSpeed(v) ==
    /\ Settled
    /\ v # playbackSpeed
    /\ lastEvent' = Event("setSpeed")
    /\ playbackSpeed' = v
    /\ UNCHANGED <<markdown, tokens, currentTokenIndex, isPlaying, urlMd, mounted,
                   tokDep, playDep, keyLen, timers, cleanup>>

\* tokens.slice(0, n)
Slice(toks, n) == SubSeq(toks, 1, Min(n, Len(toks)))

\* getCurrentMarkdown: the text handed to ReactMarkdown.
getCurrentMarkdown ==
    IF Len(tokens) = 0 THEN <<>>
    ELSE Decode(Slice(tokens, currentTokenIndex))

\* ShareToken with the cursor serialized after the text.
ShareTokenWithCursor ==
    compressToEncodedURIComponent(markdown) \o <<currentTokenIndex>>

\* handleShare: the token put into the copied URL.
ShareToken == compressToEncodedURIComponent(markdown)

\* handleShare: the URL is written to the clipboard, unless the write is
\* rejected (`written` is FALSE), which the handler catches.
handleShare(written) ==
    /\ Settled
    /\ lastEvent' = ShareEvent(IF written THEN Param(ShareToken) ELSE NoParam)
    /\ UNCHANGED <<markdown, tokens, currentTokenIndex, isPlaying, playbackSpeed,
                   urlMd, mounted, tokDep, playDep, keyLen, timers, cleanup>>

UserEvent ==
    \/ \E t \in Texts : EditText(t)
    \/ \E key \in Keys, target \in KeyTargets : handleKeyDown(key, target)
    \/ togglePlayback
    \/ resetToStart
    \/ skipToEnd
    \/ \E index \in 0..(Len(tokens) - 1) : TokenClick(index)
    \/ \E v \in Speeds : SetSpeed(v)
    \/ \E written \in BOOLEAN : handleShare(written)

Next ==
    \/ FlushEffects
    \/ TimerFire
    \/ UserEvent

Spec == Init /\ [][Next]_vars

\* Playback left alone: user events arrive only while playback is stopped, the
\* timer fires and the effects are flushed whenever they are due.
PlayNext ==
    \/ FlushEffects
    \/ TimerFire
    \/ (~isPlaying /\ UserEvent)

PlaySpec == Init /\ [][PlayNext]_vars /\ WF_vars(TimerFire) /\ WF_vars(FlushEffects)

\* ------------------------------------------------------------ the claims

IsPrefix(p, t) == Len(p) <= Len(t) /\ SubSeq(t, 1, Len(p)) = p

\* C1: in every reachable state the cursor lies within the current token
\* sequence, 0 <= Cursor <= N, tokenization failures included.
C1_CursorInRange ==
    0 <= currentTokenIndex /\ currentTokenIndex <= Len(tokens)

\* C2: once an edit of the source text has been taken in, Cursor = 0 and the
\* token sequence is encode(newText), for every new text on which encode is
\* defined, the empty text included.
C2_EditResets ==
    (Settled /\ lastEvent.op = "edit" /\ ~EncodeThrows(markdown))
        => (currentTokenIndex = 0 /\ tokens = Encode(markdown))

\* C8: whenever the source text tokenizes, the text handed to the renderer
\* is decode(tokens[0:Cursor]) and a prefix of the current source text: empty
\* at Cursor = 0 and the whole source text at Cursor = N.
C8_RenderedPrefix ==
    (Settled /\ ~EncodeThrows(markdown))
        => /\ getCurrentMarkdown = Decode(Slice(tokens, currentTokenIndex))
           /\ IsPrefix(getCurrentMarkdown, markdown)
           /\ (currentTokenIndex = 0 => getCurrentMarkdown = <<>>)
           /\ (currentTokenIndex = Len(tokens) => getCurrentMarkdown = markdown)

\* C9: once a failed tokenization of the source text has been taken in, the
\* token sequence is empty, Cursor = 0 and playback is Stopped.
C9_FailureConsistent ==
    (Settled /\ EncodeThrows(markdown))
        => (tokens = <<>> /\ currentTokenIndex = 0 /\ ~isPlaying)

\* C3 as claimed, on the edits the tokenize effect takes in (a non-empty new
\* text): once the edit has been taken in, the playback state is Stopped.
C3_EditStops ==
    (Settled /\ lastEvent.op = "edit" /\ markdown # <<>>) => ~isPlaying

\* C3 as amended: an edit never starts playback, and it stops playback only
\* when tokenizing the new text fails: on every step from the edit until the
\* next event the playback state is unchanged, or goes from Playing to
\* Stopped with a source text on which encode throws; and after an edit to
\* such a text playback is Stopped.
C3_EditKeepsPlayback ==
    /\ [][lastEvent'.op = "edit"
            => \/ isPlaying' = isPlaying
               \/ (isPlaying /\ ~isPlaying' /\ EncodeThrows(markdown'))]_vars
    /\ []((Settled /\ lastEvent.op = "edit" /\ EncodeThrows(markdown)) => ~isPlaying)

\* An edit made while Playing has been taken in: the new text is tokenized,
\* the cursor is back at 0 and autoplay goes on, on the new sequence.
C3_Witness ==
    /\ Settled
    /\ lastEvent.op = "edit"
    /\ isPlaying
    /\ markdown # <<>>
    /\ tokens = Encode(markdown)
    /\ currentTokenIndex = 0
    /\ timer.set /\ timer.tokens = tokens

\* C4: a tick scheduled with a token sequence that has since been replaced
\* does not change the cursor when it fires.
C4_StaleTickNoOp ==
    [][(TimerFire /\ timer.tokens # tokens)
          => currentTokenIndex' = currentTokenIndex]_vars

\* The manual navigation events: arrow keys outside the textarea, the
\* jump-to-start and jump-to-end buttons, a click on a token.
IsManual(e) ==
    \/ e.op \in {"resetToStart", "skipToEnd", "tokenClick"}
    \/ (e.op = "keydown" /\ e.target # "textarea" /\ e.key \in {"ArrowLeft", "ArrowRight"})

\* C5: from a manual navigation event until the next event, the playback
\* state is Stopped.
C5_ManualStops ==
    IsManual(lastEvent) => ~isPlaying

\* A manual navigation event has just been handled while Playing: the tick
\* of the interrupted autoplay is still to be cancelled by the effect cleanup.
C5_Witness ==
    /\ IsManual(lastEvent)
    /\ lastEvent.op = "tokenClick"
    /\ timer.set
    /\ ~isPlaying

\* C6: playback started before the end and then left alone reaches
\* Cursor = N and stops there by itself; on the way the cursor never passes
\* N, and neither the timer nor an effect ever starts playback again.
C6_AutoplayTerminates ==
    /\ []((isPlaying /\ currentTokenIndex < Len(tokens))
            => <>(Settled /\ ~isPlaying /\ currentTokenIndex = Len(tokens)))
    /\ [][(isPlaying /\ currentTokenIndex < Len(tokens))
            => currentTokenIndex' <= Len(tokens')]_vars
    /\ [][(~isPlaying /\ (FlushEffects \/ TimerFire)) => ~isPlaying']_vars

\* Autoplay has run through the three tokens of the default text and has
\* stopped by itself at the end.
C6_Witness ==
    /\ Settled
    /\ lastEvent.op = "tick"
    /\ ~isPlaying
    /\ Len(tokens) = 3
    /\ currentTokenIndex = Len(tokens)
    /\ ~timer.set

\* The events that start playback when it is stopped.
IsStart(e) ==
    \/ e.op = "togglePlayback"
    \/ (e.op = "keydown" /\ e.target # "textarea" /\ e.key = " ")

StartPlay ==
    /\ ~isPlaying
    /\ (togglePlayback \/ handleKeyDown(" ", "body"))

\* C7 as claimed: starting playback with Cursor = N is a no-op, the state
\* stays Stopped and the cursor is unchanged.
C7_PlayAtEndNoOp ==
    [][(StartPlay /\ currentTokenIndex = Len(tokens))
          => (~isPlaying' /\ currentTokenIndex' = currentTokenIndex)]_vars

\* C7 as amended: starting playback with the cursor at the end sets Playing
\* without moving the cursor or scheduling a tick; a state that is Playing
\* at the end always has effects pending, so no tick and no further event is
\* taken in it; and the flush of those effects sets Stopped, again without
\* moving the cursor or scheduling a tick.
C7_PlayAtEndStopsAgain ==
    /\ [][(StartPlay /\ currentTokenIndex = Len(tokens))
            => (isPlaying' /\ currentTokenIndex' = currentTokenIndex /\ ~timer'.set)]_vars
    /\ []((isPlaying /\ currentTokenIndex >= Len(tokens)) => EffectsPending)
    /\ [][(IsStart(lastEvent) /\ isPlaying /\ currentTokenIndex >= Len(tokens))
            => (~isPlaying' /\ currentTokenIndex' = currentTokenIndex /\ ~timer'.set)]_vars

\* Playback was started at the end of the default text and is Stopped
\* again, the cursor still at the end (a toggle that pauses leaves the
\* cursor before the end).
C7_Witness ==
    /\ Settled
    /\ lastEvent.op = "togglePlayback"
    /\ ~isPlaying
    /\ Len(tokens) = 3
    /\ currentTokenIndex = Len(tokens)

\* The share token of the page is corrupt or malformed: decompressing it
\* throws or yields no text.
CorruptShare(param) ==
    /\ param.has
    /\ param.tok # <<>>
    /\ LET d == decompressFromEncodedURIComponent(param.tok)
       IN  d.kind \in {"throw", "null"} \/ d.text = <<>>

\* C10: after startup with a corrupt or malformed share token, and until the
\* first event, the source text is the default text.
C10_CorruptShareKeepsDefault ==
    (mounted /\ lastEvent.op = "mount" /\ CorruptShare(urlMd))
        => markdown = defaultMarkdown

\* Startup with a share token on which decompression throws has completed
\* with the default text, tokenized.
C10_Witness ==
    /\ Settled
    /\ lastEvent.op = "mount"
    /\ urlMd = Param(<<RaiseSymbol>>)
    /\ markdown = defaultMarkdown
    /\ tokens = Encode(defaultMarkdown)

\* C11: the page opened with the share token of a text t, the empty text
\* included, has t as its source text once startup has completed.
C11_ShareRoundTrip ==
    \A t \in ShareTexts :
        (Settled /\ lastEvent.op = "mount"
                 /\ urlMd = Param(compressToEncodedURIComponent(t)))
            => markdown = t

\* C12: the token the Share action copies is the compressed source text,
\* whatever the cursor and the playback state; and the page opened with any
\* share token is at Cursor = 0, Stopped, until the first event.
C12_ShareTextOnly ==
    /\ (lastEvent.op = "share" /\ lastEvent.copied.has)
           => lastEvent.copied.tok = compressToEncodedURIComponent(markdown)
    /\ lastEvent.op = "mount" => (currentTokenIndex = 0 /\ ~isPlaying)

\* The text "aa" has been shared while playing, with the cursor at 1.
C12_Witness ==
    /\ lastEvent.op = "share"
    /\ lastEvent.copied = Param(compressToEncodedURIComponent(<<"a", "a">>))
    /\ markdown = <<"a", "a">>
    /\ isPlaying
    /\ currentTokenIndex = 1

\* C13 as claimed: the effects run after a change of speed leave the pending
\* tick as it was scheduled.
C13_SpeedKeepsPendingTick ==
    [][(FlushEffects /\ lastEvent.op = "setSpeed" /\ timer.set)
          => timer' = timer]_vars

\* C13 as amended: the effects run after a change of speed replace the
\* pending tick by one with the new interval, the cursor unchanged; every
\* pending tick of a settled state has the current speed as its interval.
C13_SpeedReschedules ==
    /\ [][(FlushEffects /\ lastEvent.op = "setSpeed" /\ timer.set)
            => /\ timer'.set
               /\ timer'.delay = playbackSpeed
               /\ timer'.delay # timer.delay
               /\ timer'.tokens = tokens
               /\ currentTokenIndex' = currentTokenIndex]_vars
    /\ []((Settled /\ timer.set) => timer.delay = playbackSpeed)

\* The speed was changed to 50 while a tick was pending, and the tick now
\* pending has the interval 50.
C13_Witness ==
    /\ Settled
    /\ lastEvent.op = "setSpeed"
    /\ playbackSpeed = 50
    /\ timer.set
    /\ timer.delay = 50

\* C14: a tick fires only while Playing with the cursor before the end, and
\* advances the cursor by exactly 1, still Playing; the effects run after
\* it leave the cursor alone and schedule the next tick when the cursor is
\* before the end, and set Stopped without scheduling a tick when it is at
\* the end; once autoplay has stopped, neither the timer nor an effect
\* changes the cursor or the playback state.
C14_TickAdvances ==
    /\ [][TimerFire
            => /\ isPlaying /\ isPlaying'
               /\ currentTokenIndex < Len(tokens)
               /\ currentTokenIndex' = currentTokenIndex + 1]_vars
    /\ [][(FlushEffects /\ lastEvent.op = "tick" /\ isPlaying)
            => /\ currentTokenIndex' = currentTokenIndex
               /\ IF currentTokenIndex < Len(tokens)
                  THEN isPlaying' /\ timer'.set
                  ELSE /\ currentTokenIndex = Len(tokens)
                       /\ ~isPlaying' /\ ~timer'.set]_vars
    /\ [][(lastEvent.op = "tick" /\ ~isPlaying /\ (FlushEffects \/ TimerFire))
            => (currentTokenIndex' = currentTokenIndex /\ ~isPlaying')]_vars

\* A tick has advanced the cursor to 2 of 3 tokens, autoplay goes on and the
\* next tick is scheduled.
C14_Witness ==
    /\ Settled
    /\ lastEvent.op = "tick"
    /\ isPlaying
    /\ Len(tokens) = 3
    /\ currentTokenIndex = 2
    /\ timer.set

\* C15: a tick fires only while Playing; while Stopped a tick is pending
\* only as long as effects are pending (when neither a tick nor an event is
\* taken), and the flush of those effects cancels it: in a settled Stopped
\* state no tick is pending.
C15_StoppedNoTick ==
    /\ [][TimerFire => isPlaying]_vars
    /\ [](~isPlaying => (timers = {} \/ EffectsPending))
    /\ [][(FlushEffects /\ ~isPlaying) => timers' = {}]_vars

\* Autoplay of the default text was paused with the cursor at 1, and no
\* tick is pending.
C15_Witness ==
    /\ Settled
    /\ lastEvent.op = "togglePlayback"
    /\ ~isPlaying
    /\ Len(tokens) = 3
    /\ currentTokenIndex = 1
    /\ timers = {}

\* C18: at most one autoplay tick is pending.
C18_OneTickPending ==
    Cardinality(timers) <= 1

\* The speed was changed and the text was replaced while playing, and
\* exactly one tick is pending.
C18_Witness ==
    /\ Settled
    /\ Cardinality(timers) = 1
    /\ isPlaying
    /\ lastEvent.op = "edit"
    /\ playbackSpeed # DefaultSpeed
    /\ markdown = <<"a", "a">>

\* C16: step-forward sets the cursor to min(Cursor + 1, N) and step-back to
\* max(Cursor - 1, 0), N the length of the current token sequence; each moves
\* the cursor by at most 1, and not at all at N and at 0 respectively.
C16_StepClamped ==
    [][/\ handleKeyDown("ArrowRight", "body")
            => /\ currentTokenIndex' = Min(currentTokenIndex + 1, Len(tokens))
               /\ currentTokenIndex' - currentTokenIndex \in {-1, 0, 1}
               /\ (currentTokenIndex = Len(tokens)
                      => currentTokenIndex' = currentTokenIndex)
       /\ handleKeyDown("ArrowLeft", "body")
            => /\ currentTokenIndex' = Max(currentTokenIndex - 1, 0)
               /\ currentTokenIndex - currentTokenIndex' \in {-1, 0, 1}
               /\ (currentTokenIndex = 0 => currentTokenIndex' = currentTokenIndex)]_vars

\* C17: clicking the token at index i (0 <= i < N) sets the cursor to i + 1
\* and stops playback, so that exactly the tokens with index <= i are active;
\* a click never sets the cursor to 0 or above N.
C17_ClickSeeks ==
    [][\A i \in 0..(Len(tokens) - 1) :
          TokenClick(i)
            => /\ currentTokenIndex' = i + 1
               /\ ~isPlaying'
               /\ currentTokenIndex' \in 1..Len(tokens')
               /\ \A j \in 0..(Len(tokens') - 1) :
                      isActive(j, currentTokenIndex') <=> j <= i]_vars

\* The middle token of three was clicked and the effects have run: the first
\* two tokens are active, the third is not.
C17_Witness ==
    /\ Settled
    /\ lastEvent.op = "tokenClick"
    /\ Len(tokens) = 3
    /\ currentTokenIndex = 2
    /\ ~isPlaying
    /\ isActive(1, currentTokenIndex)
    /\ ~isActive(2, currentTokenIndex)

\* C19: a key press whose target is the text input area leaves the cursor and
\* the playback state unchanged.
C19_TextareaKeysIgnored ==
    [][\A key \in Keys :
          handleKeyDown(key, "textarea")
            => /\ currentTokenIndex' = currentTokenIndex
               /\ isPlaying' = isPlaying]_vars

\* Space was typed in the text input area while playing in mid-sequence.
C19_Witness ==
    /\ lastEvent = KeyEvent(" ", "textarea")
    /\ isPlaying
    /\ currentTokenIndex = 1
    /\ Len(tokens) = 3

====
